---- MODULE Spec2Model ----
(***************************************************************************)
(* Windows plugin glue of adapter_websocket.                               *)
(*                                                                         *)
(*   src/windows/adapter_websocket_plugin_c_api.cpp  the C-linkage shim    *)
(*   src/windows/adapter_websocket_plugin.h          the plugin class      *)
(*                                                                         *)
(* The shim's body is in the source and is modelled from it.  The bodies   *)
(* of AdapterWebsocketPlugin::RegisterWithRegistrar, HandleMethodCall and  *)
(* the destructor are declared in the header but defined in a translation  *)
(* unit that is not part of the given source; they, and the host's         *)
(* delivery and teardown, are modelled from the specification's wording.   *)
(***************************************************************************)
EXTENDS Naturals, Sequences, FiniteSets

\* ------------------------------------------------------------------ bounds
NumHandles == 2
MaxRegistrations == 2
MaxCalls == 2

\* Opaque registrar references handed out by the host embedder.
Handles == 1 .. NumHandles
\* The concrete windows registrars the manager resolves references to.
RegistrarIds == (NumHandles + 1) .. (2 * NumHandles)
CallIds == 1 .. MaxCalls
Outcomes == {"success", "error", "notImplemented"}
\* The method channel the plugin is expected on.
ChannelName == "adapter_websocket"

VARIABLES
    manager,       \* process-wide registrar manager: reference -> registrar
    lookups,       \* lookups the manager has served, per reference
    shimCalls,     \* calls of the shim the host has made, per reference
    factoryCalls,  \* invocations of the static factory, per registrar
    plugins,       \* live plugin instances each registrar owns
    destroyed,     \* plugin instances that have been destructed
    handlers,      \* method-call handlers attached on each registrar
    tornDown,      \* registrars the host has torn down
    bootLog,       \* the events of the most recent registration call
    inProgress,    \* HandleMethodCall frames that have not returned yet
    delivered,     \* number of method calls delivered so far
    results        \* what each call's result object has been told

vars == <<manager, lookups, shimCalls, factoryCalls, plugins, destroyed,
          handlers, tornDown, bootLog, inProgress, delivered, results>>

\* ------------------------------------------------------------ the manager
\* A rotation, so that a reference and the registrar it resolves to are
\* never the same number and no two references share a registrar.
Init ==
    /\ manager = [h \in Handles |-> NumHandles + 1 + (h % NumHandles)]
    /\ lookups = [h \in Handles |-> 0]
    /\ shimCalls = [h \in Handles |-> 0]
    /\ factoryCalls = [r \in RegistrarIds |-> 0]
    /\ plugins = [r \in RegistrarIds |-> {}]
    /\ destroyed = [r \in RegistrarIds |-> {}]
    /\ handlers = [r \in RegistrarIds |-> {}]
    /\ tornDown = [r \in RegistrarIds |-> FALSE]
    /\ bootLog = <<>>
    /\ inProgress = {}
    /\ delivered = 0
    /\ results = [c \in CallIds |-> <<>>]

\* Variant: the manager is asked about a neighbouring reference.
GetRegistrarOther(registrar) == manager[(registrar % NumHandles) + 1]

\* flutter::PluginRegistrarManager::GetInstance()->GetRegistrar<...>(registrar)
GetRegistrar(registrar) == manager[registrar]

\* Variant: callbacks are entered whatever else is running.
PlatformThreadAny == TRUE

\* The platform thread runs one callback at a time.
PlatformThreadIdle == inProgress = {}

\* ------------------------------------------------------- the plugin class
\* Every plugin instance ever registered with registrar r, live or not.
Registered(r) == plugins[r] \cup destroyed[r]

\* AdapterWebsocketPlugin::RegisterWithRegistrar(registrar): constructs the
\* plugin and attaches its channel handler to the given registrar, which
\* takes ownership of the instance.
RegisterWithRegistrar(registrar) ==
    LET p == Cardinality(Registered(registrar)) + 1 IN
    /\ plugins' = [plugins EXCEPT ![registrar] = @ \cup {p}]
    /\ handlers' = [handlers EXCEPT ![registrar] =
                       @ \cup {[channel |-> ChannelName, plugin |-> p]}]

\* The order of the factory's two effects.
RegisterEvents(registrar) ==
    << <<"construct", registrar>>, <<"attach", registrar>> >>

\* ---------------------------------------------------------------- the shim
\* Variant: a shim that remembers, and returns early for a registrar that
\* already has a plugin.
ShimSkipsRegistered(registrar) ==
    LET r == GetRegistrar(registrar) IN
    /\ lookups' = [lookups EXCEPT ![registrar] = @ + 1]
    /\ IF plugins[r] # {}
         THEN /\ bootLog' = << <<"shim", registrar>>, <<"lookup", registrar>> >>
              /\ UNCHANGED <<factoryCalls, plugins, handlers>>
         ELSE /\ factoryCalls' = [factoryCalls EXCEPT ![r] = @ + 1]
              /\ RegisterWithRegistrar(r)
              /\ bootLog' = << <<"shim", registrar>>, <<"lookup", registrar>>,
                               <<"factory", r>> >> \o RegisterEvents(r)
    /\ UNCHANGED <<manager, destroyed, tornDown, inProgress, delivered,
                   results>>

\* Variant: a shim that registers first and resolves the reference after.
ShimFactoryFirst(registrar) ==
    LET r == GetRegistrar(registrar) IN
    /\ lookups' = [lookups EXCEPT ![registrar] = @ + 1]
    /\ factoryCalls' = [factoryCalls EXCEPT ![r] = @ + 1]
    /\ RegisterWithRegistrar(r)
    /\ bootLog' = << <<"shim", registrar>>, <<"factory", r>> >>
                  \o RegisterEvents(r) \o << <<"lookup", registrar>> >>
    /\ UNCHANGED <<manager, destroyed, tornDown, inProgress, delivered,
                   results>>

\* Variant: a shim that treats the reference as its own and rebinds it.
ShimRebindsManager(registrar) ==
    LET r == GetRegistrar(registrar) IN
    /\ lookups' = [lookups EXCEPT ![registrar] = @ + 1]
    /\ factoryCalls' = [factoryCalls EXCEPT ![r] = @ + 1]
    /\ RegisterWithRegistrar(r)
    /\ bootLog' = << <<"shim", registrar>>, <<"lookup", registrar>>,
                     <<"factory", r>> >> \o RegisterEvents(r)
    /\ manager' = [manager EXCEPT
                      ![registrar] = manager[(registrar % NumHandles) + 1]]
    /\ UNCHANGED <<destroyed, tornDown, inProgress, delivered, results>>

\* void AdapterWebsocketPluginCApiRegisterWithRegistrar(registrar): the
\* argument expression (the lookup) is evaluated, then the factory is called.
AdapterWebsocketPluginCApiRegisterWithRegistrar(registrar) ==
    LET r == GetRegistrar(registrar) IN
    /\ lookups' = [lookups EXCEPT ![registrar] = @ + 1]
    /\ factoryCalls' = [factoryCalls EXCEPT ![r] = @ + 1]
    /\ RegisterWithRegistrar(r)
    /\ bootLog' = << <<"shim", registrar>>, <<"lookup", registrar>>,
                     <<"factory", r>> >> \o RegisterEvents(r)
    /\ UNCHANGED <<manager, destroyed, tornDown, inProgress, delivered,
                   results>>

\* ---------------------------------------------------------------- the host
\* The embedder calls the shim with a reference of a registrar that is alive.
HostRegisters(h) ==
    /\ PlatformThreadIdle
    /\ shimCalls[h] < MaxRegistrations
    /\ ~tornDown[manager[h]]
    /\ shimCalls' = [shimCalls EXCEPT ![h] = @ + 1]
    /\ AdapterWebsocketPluginCApiRegisterWithRegistrar(h)

\* The host forwards a Dart-side invocation on the channel to the handler
\* attached for it: HandleMethodCall(call, result) begins.
Deliver(r) ==
    /\ PlatformThreadIdle
    /\ delivered < MaxCalls
    /\ \E hd \in handlers[r] :
         /\ hd.channel = ChannelName
         /\ inProgress' = inProgress \cup
               {[id |-> delivered + 1, registrar |-> r, plugin |-> hd.plugin]}
    /\ delivered' = delivered + 1
    /\ UNCHANGED <<manager, lookups, shimCalls, factoryCalls, plugins,
                   destroyed, handlers, tornDown, bootLog, results>>

\* Variant: a body that falls through and reports a second time.
HandleMethodCallTwice(f, outcome) ==
    /\ f \in inProgress
    /\ results' = [results EXCEPT ![f.id] = Append(Append(@, outcome), outcome)]
    /\ inProgress' = inProgress \ {f}
    /\ UNCHANGED <<manager, lookups, shimCalls, factoryCalls, plugins,
                   destroyed, handlers, tornDown, bootLog, delivered>>

\* AdapterWebsocketPlugin::HandleMethodCall: the body reports one outcome to
\* the result object and returns.
HandleMethodCall(f, outcome) ==
    /\ f \in inProgress
    /\ results' = [results EXCEPT ![f.id] = Append(@, outcome)]
    /\ inProgress' = inProgress \ {f}
    /\ UNCHANGED <<manager, lookups, shimCalls, factoryCalls, plugins,
                   destroyed, handlers, tornDown, bootLog, delivered>>

\* Variant: a teardown that destructs the plugins and leaves their channel
\* handlers, which point at them, attached.
TeardownKeepsHandlers(r) ==
    /\ PlatformThreadIdle
    /\ ~tornDown[r]
    /\ tornDown' = [tornDown EXCEPT ![r] = TRUE]
    /\ destroyed' = [destroyed EXCEPT ![r] = @ \cup plugins[r]]
    /\ plugins' = [plugins EXCEPT ![r] = {}]
    /\ UNCHANGED <<manager, lookups, shimCalls, factoryCalls, handlers,
                   bootLog, inProgress, delivered, results>>

\* The registrar tears down: it destructs the plugins it owns
\* (~AdapterWebsocketPlugin) and its channel handlers go with it.
Teardown(r) ==
    /\ PlatformThreadIdle
    /\ ~tornDown[r]
    /\ tornDown' = [tornDown EXCEPT ![r] = TRUE]
    /\ destroyed' = [destroyed EXCEPT ![r] = @ \cup plugins[r]]
    /\ plugins' = [plugins EXCEPT ![r] = {}]
    /\ handlers' = [handlers EXCEPT ![r] = {}]
    /\ UNCHANGED <<manager, lookups, shimCalls, factoryCalls, bootLog,
                   inProgress, delivered, results>>

Next ==
    \/ \E h \in Handles : HostRegisters(h)
    \/ \E r \in RegistrarIds : Deliver(r)
    \/ \E f \in inProgress, o \in Outcomes : HandleMethodCall(f, o)
    \/ \E r \in RegistrarIds : Teardown(r)

Spec == Init /\ [][Next]_vars

\* A call that has begun runs to its end: the body is synchronous.
LiveSpec ==
    Spec /\ WF_vars(\E f \in inProgress, o \in Outcomes : HandleMethodCall(f, o))

\* ------------------------------------------------------------------ claims
\* A step in which the host called the shim with reference h.
ShimStep(h) == shimCalls'[h] = shimCalls[h] + 1

\* The place of the first event of a kind in the registration log, 0 if none.
Pos(kind) ==
    IF \E i \in 1 .. Len(bootLog) : bootLog[i][1] = kind
    THEN CHOOSE i \in 1 .. Len(bootLog) :
            /\ bootLog[i][1] = kind
            /\ \A j \in 1 .. (i - 1) : bootLog[j][1] # kind
    ELSE 0

\* C1: every HandleMethodCall that is delivered has its result resolved in
\* the end, and exactly once: a result object is never told two outcomes,
\* is told nothing before its call is delivered, keeps the one outcome it
\* was told, and every delivered call leads to a result told exactly one
\* of success, error, notImplemented.
C1_ResolvedExactlyOnce ==
    /\ [](\A c \in CallIds :
            /\ Len(results[c]) <= 1
            /\ (Len(results[c]) = 1 => c <= delivered /\ results[c][1] \in Outcomes))
    /\ [][\A c \in CallIds : Len(results[c]) = 1 => results'[c] = results[c]]_vars
    /\ \A c \in CallIds : (delivered >= c) ~> (Len(results[c]) = 1)

C1_Witness ==
    \E c \in CallIds : c <= delivered /\ results[c] = <<"notImplemented">>

\* C2: a reference the shim was called with exactly once has, on the
\* registrar it resolves to (while that registrar lives), exactly one
\* handler, and that handler is on the expected channel.
C2_OneHandlerOnChannel ==
    \A h \in Handles :
        (shimCalls[h] = 1 /\ ~tornDown[manager[h]]) =>
            /\ Cardinality({hd \in handlers[manager[h]] :
                               hd.channel = ChannelName}) = 1
            /\ \A hd \in handlers[manager[h]] : hd.channel = ChannelName

C2_Witness ==
    \E h \in Handles :
        /\ shimCalls[h] = 1
        /\ handlers[manager[h]] = {[channel |-> ChannelName, plugin |-> 1]}

\* C3 as stated: whatever calls were made, each registrar has at most one
\* plugin instance registered with it.
C3_AtMostOnePlugin ==
    \A r \in RegistrarIds : Cardinality(Registered(r)) <= 1

\* C3 amended: a registrar whose reference the shim was called with at most
\* once has at most one plugin instance registered with it.
C3_AtMostOnePluginIfRegisteredOnce ==
    \A h \in Handles :
        shimCalls[h] <= 1 => Cardinality(Registered(manager[h])) <= 1

C3_Witness ==
    \E h \in Handles :
        shimCalls[h] = 1 /\ Cardinality(Registered(manager[h])) = 1

\* C4: a call of the shim with reference h is one lookup of h and one
\* invocation of the factory on the registrar the manager holds for h; the
\* only other changes are the factory's, on that registrar.
C4_PureForwarding ==
    [][\A h \in Handles :
          ShimStep(h) =>
            /\ lookups' = [lookups EXCEPT ![h] = @ + 1]
            /\ factoryCalls' = [factoryCalls EXCEPT ![manager[h]] = @ + 1]
            /\ \A r \in RegistrarIds \ {manager[h]} :
                  plugins'[r] = plugins[r] /\ handlers'[r] = handlers[r]
            /\ UNCHANGED <<manager, destroyed, tornDown, inProgress,
                           delivered, results>>]_vars

C4_Witness ==
    \E h \in Handles :
        /\ lookups[h] = 1
        /\ factoryCalls[manager[h]] = 1
        /\ \A g \in Handles \ {h} : lookups[g] = 0 /\ factoryCalls[manager[g]] = 0

\* C5: the shim has no outcome but delegation: a registration call the host
\* may make is never refused, every call of the shim invokes the factory,
\* and the log of a call holds the delegation and no error.
C5_NoFailurePath ==
    /\ [](\A h \in Handles :
            (PlatformThreadIdle /\ shimCalls[h] < MaxRegistrations
               /\ ~tornDown[manager[h]]) => ENABLED HostRegisters(h))
    /\ [](bootLog # <<>> => Pos("factory") > 0 /\ Pos("error") = 0)
    /\ [][\A h \in Handles : ShimStep(h) => factoryCalls' # factoryCalls]_vars

C5_Witness ==
    /\ bootLog # <<>>
    /\ Pos("factory") > 0
    /\ \E h \in Handles : shimCalls[h] = MaxRegistrations

C8_BootstrapOrder ==
    /\ [](bootLog # <<>> =>
            /\ Pos("shim") = 1
            /\ Pos("shim") < Pos("lookup")
            /\ Pos("lookup") < Pos("factory")
            /\ Pos("factory") < Pos("construct")
            /\ Pos("construct") < Pos("attach"))
    /\ [][\A f \in inProgress' \ inProgress :
            /\ [channel |-> ChannelName, plugin |-> f.plugin]
                  \in handlers[f.registrar]
            /\ bootLog # <<>>]_vars

C8_Witness ==
    /\ Len(bootLog) = 5
    /\ inProgress # {}

\* C9: no plugin instance has two HandleMethodCall invocations in progress,
\* and no registration or teardown happens while one is in progress.
C9_OneCallAtATime ==
    /\ [](\A f, g \in inProgress :
            (f.registrar = g.registrar /\ f.plugin = g.plugin) => f = g)
    /\ [][((\E h \in Handles : ShimStep(h)) \/ tornDown' # tornDown) =>
            (inProgress = {} /\ inProgress' = {})]_vars

C9_Witness ==
    /\ Cardinality(inProgress) = 1
    /\ delivered = MaxCalls

\* C10: the factory has been invoked on a reference's registrar exactly as
\* often as the shim has been called with that reference.
C10_FactoryCallsEqualShimCalls ==
    \A h \in Handles : factoryCalls[manager[h]] = shimCalls[h]

C10_Witness ==
    \E h \in Handles :
        shimCalls[h] >= 2 /\ factoryCalls[manager[h]] = shimCalls[h]

====
